---------------------------- MODULE Spec2Model ----------------------------
(***************************************************************************)
(* Smart Library backend: the moderated, retrieval-augmented response      *)
(* pipeline (backend/app/main.py), the embedding index (backend/app/rag.py)*)
(* the summary lookup (backend/app/tools.py) and the moderation gate       *)
(* (backend/app/moderation.py).                                            *)
(*                                                                         *)
(* Text is a sequence of one-character strings, so that trimming, case     *)
(* folding, prefix and substring tests and regular-expression matching are *)
(* computed as the code computes them.  A character outside ASCII is named *)
(* by a longer string ("t_comma" is one character).                        *)
(***************************************************************************)
EXTENDS Integers, Sequences, FiniteSets, TLC

-----------------------------------------------------------------------------
(* Bounds of the model *)

\* number of points on the circle of embedding directions
NVec == 4
\* most provider events one streaming call yields before it ends or fails
MaxEvents == 2

-----------------------------------------------------------------------------
(* Text *)

Upper == <<"A", "B", "C", "D", "E", "F", "G", "H", "I", "J", "K", "L", "M",
           "N", "O", "P", "Q", "R", "S", "T", "U", "V", "W", "X", "Y", "Z">>
Lower == <<"a", "b", "c", "d", "e", "f", "g", "h", "i", "j", "k", "l", "m",
           "n", "o", "p", "q", "r", "s", "t", "u", "v", "w", "x", "y", "z">>

\* str.lower / str.casefold of one character
LowerChar(c) ==
    IF \E i \in 1..Len(Upper) : Upper[i] = c
    THEN Lower[CHOOSE i \in 1..Len(Upper) : Upper[i] = c]
    ELSE c

\* str.casefold
casefold(s) == [i \in 1..Len(s) |-> LowerChar(s[i])]

\* str.isspace of one character
IsSpace(c) == c \in {" ", "\t", "\n"}

\* \w of the re module: letters, digits and the underscore
IsWordChar(c) == c \notin {" ", "\t", "\n", "-", "!", "?", ".", ",", ";", ":", "'"}

\* str.strip
strip(s) ==
    IF \A i \in 1..Len(s) : IsSpace(s[i])
    THEN << >>
    ELSE LET lo == CHOOSE i \in 1..Len(s) :
                     /\ ~IsSpace(s[i])
                     /\ \A j \in 1..(i - 1) : IsSpace(s[j])
             hi == CHOOSE i \in 1..Len(s) :
                     /\ ~IsSpace(s[i])
                     /\ \A j \in (i + 1)..Len(s) : IsSpace(s[j])
         IN  SubSeq(s, lo, hi)

\* s[i:].startswith(p)
StartsWithAt(s, i, p) ==
    /\ i + Len(p) - 1 <= Len(s)
    /\ \A j \in 1..Len(p) : s[i + j - 1] = p[j]

\* str.startswith
startswith(s, p) == StartsWithAt(s, 1, p)

\* the `in` operator on two strings
contains(s, p) == \E i \in 1..(Len(s) + 1) : StartsWithAt(s, i, p)

-----------------------------------------------------------------------------
(* Moderation gate: backend/app/moderation.py *)

\* the stem of each pattern r"\b<stem>\w*\b", in the order of the list
OFFENSIVE_PATTERNS ==
    << <<"i", "d", "i", "o", "t">>, <<"p", "r", "o", "s", "t">>, <<"n", "e", "s", "i", "m", "t_comma", "i", "t">>, <<"j", "e", "g">>, <<"j", "i", "g", "o", "d">>, <<"j", "i", "g", "a_breve", "o", "d">>,
       <<"b", "o", "z", "g", "o", "r">>, <<"d", "o", "a", "m", "n", "e", "-", "f", "e", "r">>, <<"d", "r", "a", "c", "u">>, <<"n", "a", "i", "b">>, <<"p", "u", "l">>, <<"c", "u", "r">>,
       <<"m", "u", "i", "s", "t">>, <<"t_comma", "i", "g", "a", "n">>, <<"h", "a", "n", "d", "i", "c", "a", "p", "a", "t">>, <<"b", "o", "u">>, <<"b", "o", "u", "l", "e", "a", "n">>, <<"p", "o", "r", "c">>,
       <<"v", "a", "c", "a_breve">>, <<"g", "u", "n", "o", "a">>, <<"m", "a_breve", "g", "a", "r">>, <<"z", "d", "r", "e", "n", "t_comma", "a_breve", "r", "o", "s">>, <<"j", "a", "v", "r">>, <<"m", "o", "r", "o", "n">>,
       <<"j", "e", "r", "k">>, <<"j", "a", "c", "k", "a", "s", "s">>, <<"a", "s", "s", "h", "o", "l", "e">>, <<"s", "h", "i", "t">>, <<"f", "u", "c", "k">>, <<"c", "u", "n", "t">>,
       <<"r", "e", "t", "a", "r", "d">>, <<"b", "i", "t", "c", "h">>, <<"w", "h", "o", "r", "e">>, <<"s", "l", "u", "t">>, <<"b", "a", "s", "t", "a", "r", "d">> >>

\* \b holds before position i of s (between s[i-1] and s[i])
WordBoundary(s, i) ==
    LET before == i > 1 /\ IsWordChar(s[i - 1])
        after  == i <= Len(s) /\ IsWordChar(s[i])
    IN  before # after

\* the end of the match of \w*\b that starts at position j: \w* takes the
\* whole run of word characters, after which \b holds when the character
\* before is a word character
WordRunEnd(s, j) ==
    IF j <= Len(s) /\ \A k \in j..Len(s) : IsWordChar(s[k])
    THEN Len(s)
    ELSE (CHOOSE k \in j..(Len(s) + 1) :
             /\ k <= Len(s) => ~IsWordChar(s[k])
             /\ \A m \in j..(k - 1) : IsWordChar(s[m])) - 1

\* one alternative of _COMPILED matches at position i (re.IGNORECASE)
PatternMatchesAt(s, i, p) ==
    /\ WordBoundary(s, i)
    /\ i + Len(p) - 1 <= Len(s)
    /\ \A j \in 1..Len(p) : LowerChar(s[i + j - 1]) = p[j]
    /\ WordBoundary(s, WordRunEnd(s, i + Len(p)) + 1)

MatchesAt(s, i) ==
    /\ WordBoundary(s, i)
    /\ \E n \in 1..Len(OFFENSIVE_PATTERNS) : PatternMatchesAt(s, i, OFFENSIVE_PATTERNS[n])

\* None of Python, and a Python str where None may stand
None == [none |-> TRUE]
Str(s) == [str |-> s]

\* is_offensive: Str of the text of the leftmost match of _COMPILED.search,
\* or None
is_offensive(text) ==
    IF text = << >> THEN None
    ELSE IF ~\E i \in 1..Len(text) : MatchesAt(text, i) THEN None
    ELSE LET i == CHOOSE i \in 1..Len(text) :
                    MatchesAt(text, i) /\ \A j \in 1..(i - 1) : ~MatchesAt(text, j)
             n == CHOOSE n \in 1..Len(OFFENSIVE_PATTERNS) :
                    /\ PatternMatchesAt(text, i, OFFENSIVE_PATTERNS[n])
                    /\ \A m \in 1..(n - 1) : ~PatternMatchesAt(text, i, OFFENSIVE_PATTERNS[m])
         IN  Str(SubSeq(text, i, WordRunEnd(text, i + Len(OFFENSIVE_PATTERNS[n]))))

-----------------------------------------------------------------------------
(* Values shared by the components *)

\* a function that returned `v`, and one that raised the exception `e`
Ok(v) == [ok |-> TRUE, value |-> v]
Raise(e) == [ok |-> FALSE, exc |-> e]

-----------------------------------------------------------------------------
(* Server-sent event frames: backend/app/main.py, _sse                     *)
(*                                                                         *)
(* The body of a response is kept as its lines (the text between two "\n") *)
(* and a string handed to _sse as the sequence of its lines: a string with *)
(* n newlines has n + 1 lines.  A line of text is Text(s), where s holds   *)
(* no newline and no colon; the one line json.dumps returns is Json(v).    *)
(***************************************************************************)

Text(s) == [text |-> s]
Json(v) == [json |-> v]

\* json.dumps: newlines inside strings are escaped, the result is one line
json_dumps(v) == << Json(v) >>

\* a line "name: value", and a line that holds no colon (empty: a blank line)
FieldLine(name, value) == [name |-> name, value |-> value]
RawLine(value) == [name |-> "", value |-> value]
BlankLine == RawLine(Text(""))

\* _sse(data, event): "event: <event>\n" when event is given, then
\* "data: <data>\n\n"; the lines of data after its first follow the data
\* line as they are
_sse(data, event) ==
    (IF event # "" THEN << FieldLine("event", Text(event)) >> ELSE << >>)
    \o << FieldLine("data", data[1]) >>
    \o [i \in 1..(Len(data) - 1) |-> RawLine(data[i + 1])]
    \o << BlankLine >>

\* the lines of the body after the chunks were written one after the other
RECURSIVE Wire(_)
Wire(cs) == IF cs = << >> THEN << >> ELSE Head(cs) \o Wire(Tail(cs))

\* The frames a reader of text/event-stream delimits in a body: "event" sets
\* the type, each "data" line adds a line to the data, a blank line
\* dispatches the frame unless no data line was seen, a line with another
\* field name is ignored, and a frame the body ends in is dropped.
RECURSIVE ParseSSE(_, _, _)
ParseSSE(lines, ev, buf) ==
    IF lines = << >> THEN << >>
    ELSE LET l == Head(lines) IN
         IF l = BlankLine
         THEN (IF buf = << >> THEN << >>
               ELSE << [event |-> IF ev = "" THEN "message" ELSE ev, data |-> buf] >>)
              \o ParseSSE(Tail(lines), "", << >>)
         ELSE IF l.name = "event" THEN ParseSSE(Tail(lines), l.value.text, buf)
         ELSE IF l.name = "data" THEN ParseSSE(Tail(lines), ev, Append(buf, l.value))
         ELSE ParseSSE(Tail(lines), ev, buf)

Frames(cs) == ParseSSE(Wire(cs), "", << >>)

-----------------------------------------------------------------------------
(* Title selector: backend/app/main.py, _select_title *)

\* json.loads of the text a completion returned.  The text is described by
\* what it decodes to: "invalid" is no JSON document (also the empty text),
\* "object" is a JSON object whose member "title" is `title` (Absent when it
\* has none), the other kinds are JSON documents that are not objects.
Absent == [absent |-> TRUE]
\* a JSON number, kept as its digits
JNum(digits) == [num |-> digits]
json_loads(text) ==
    IF text.doc = "invalid" THEN Raise("JSONDecodeError")
    ELSE Ok(text)

\* str(v) of a decoded JSON value
PyStr(v) ==
    IF v = None THEN <<"N", "o", "n", "e">>
    ELSE IF "num" \in DOMAIN v THEN v.num
    ELSE v.str

\* str(data.get("title", "")).strip(); a value without .get raises
DecodedTitle(data) ==
    IF data.doc # "object" THEN Raise("AttributeError")
    ELSE IF data.title = Absent THEN Ok(<< >>)
    ELSE Ok(strip(PyStr(data.title)))

\* x.get("title") is true
HasTitle(x) == x.title # << >>
NonEmpty(t) == t # << >>

\* the candidate titles without the filter of line 83
CandidateTitlesUnfiltered(context_items) ==
    LET kept == SelectSeq(context_items, HasTitle)
    IN  << >> \o [i \in 1..Len(kept) |-> strip(kept[i].title)]

\* the candidate titles: lines 82-83
CandidateTitles(context_items) ==
    LET kept == SelectSeq(context_items, HasTitle)
    IN  SelectSeq([i \in 1..Len(kept) |-> strip(kept[i].title)], NonEmpty)

IsMember(t, titles) == \E i \in 1..Len(titles) : titles[i] = t

\* ParseChoice without the membership test of line 107: the decoded title is
\* returned as it is
ParseChoiceUnchecked(text, titles) ==
    LET loaded == json_loads(text)
        chosen == IF loaded.ok THEN DecodedTitle(loaded.value) ELSE loaded
    IN  IF chosen.ok THEN chosen.value ELSE titles[1]

\* lines 103-109, on the text the completion returned
ParseChoice(text, titles) ==
    LET loaded == json_loads(text)
        chosen == IF loaded.ok THEN DecodedTitle(loaded.value) ELSE loaded
    IN  IF chosen.ok /\ IsMember(chosen.value, titles)
        THEN chosen.value
        ELSE titles[1]

\* _select_title; `completion` is what client.responses.create does when it
\* is called: Ok(text) or Raise(e).  The call is made only when there is a
\* candidate.
SelectCalls(context_items) == CandidateTitles(context_items) # << >>

_select_title(message, context_items, completion) ==
    LET titles == CandidateTitles(context_items)
    IN  IF titles = << >> THEN Ok(<< >>)
        ELSE IF ~completion.ok THEN completion
        ELSE Ok(ParseChoice(completion.value, titles))

-----------------------------------------------------------------------------
(* Summary lookup: backend/app/tools.py *)

\* the characters in code point order, for the comparison of two strings
CodeOrder ==
    << "\t", "\n", " ", "!", "'", ",", "-", ".",
       "0", "1", "2", "3", "4", "5", "6", "7", "8", "9", ":", ";", "?" >>
    \o Upper \o << "_" >> \o Lower
    \o << "a_circ", "i_circ", "a_breve", "s_comma", "t_comma" >>

Ord(c) == CHOOSE i \in 1..Len(CodeOrder) : CodeOrder[i] = c

\* x < y on two strings
StrLess(x, y) ==
    \E n \in 1..(Len(y)) :
        /\ \A m \in 1..(n - 1) : m <= Len(x) /\ x[m] = y[m]
        /\ \/ n = Len(x) + 1
           \/ n <= Len(x) /\ Ord(x[n]) < Ord(y[n])

Min(m, n) == IF m <= n THEN m ELSE n
Max(m, n) == IF m >= n THEN m ELSE n

\* _norm
_norm(s) == casefold(strip(s))

\* difflib.SequenceMatcher.find_longest_match on a[alo..ahi], b[blo..bhi]
\* (no junk): the longest common block, of those the one that starts
\* earliest in a, of those the one that starts earliest in b; <<i, j, k>>
CommonBlocks(a, alo, ahi, b, blo, bhi) ==
    { blk \in (alo..ahi) \X (blo..bhi) \X (1..Min(ahi - alo + 1, bhi - blo + 1)) :
        /\ blk[1] + blk[3] - 1 <= ahi
        /\ blk[2] + blk[3] - 1 <= bhi
        /\ \A d \in 0..(blk[3] - 1) : a[blk[1] + d] = b[blk[2] + d] }

find_longest_match(a, alo, ahi, b, blo, bhi) ==
    LET blocks == CommonBlocks(a, alo, ahi, b, blo, bhi)
    IN  IF blocks = {} THEN <<alo, blo, 0>>
        ELSE CHOOSE x \in blocks : \A y \in blocks :
                \/ x[3] > y[3]
                \/ x[3] = y[3] /\ x[1] < y[1]
                \/ x[3] = y[3] /\ x[1] = y[1] /\ x[2] <= y[2]

\* the characters in the blocks of get_matching_blocks: the longest block,
\* then the blocks to its left and the blocks to its right
RECURSIVE MatchCount(_, _, _, _, _, _)
MatchCount(a, alo, ahi, b, blo, bhi) ==
    IF alo > ahi \/ blo > bhi THEN 0
    ELSE LET m == find_longest_match(a, alo, ahi, b, blo, bhi)
         IN  IF m[3] = 0 THEN 0
             ELSE m[3]
                  + MatchCount(a, alo, m[1] - 1, b, blo, m[2] - 1)
                  + MatchCount(a, m[1] + m[3], ahi, b, m[2] + m[3], bhi)

\* SequenceMatcher(a, b).ratio() = 2.0 * M / T as the fraction <<num, den>>
ratio(a, b) ==
    IF Len(a) + Len(b) = 0 THEN <<1, 1>>
    ELSE <<2 * MatchCount(a, 1, Len(a), b, 1, Len(b)), Len(a) + Len(b)>>

\* ratio >= cutoff, for cutoff = 0.6
AtLeastCutoff(r) == 10 * r[1] >= 6 * r[2]

\* (score, x) of one possibility is greater than that of another
ScoredGreater(r, x, s, y) ==
    \/ r[1] * s[2] > s[1] * r[2]
    \/ r[1] * s[2] = s[1] * r[2] /\ StrLess(y, x)

\* difflib.get_close_matches(word, possibilities, n=1, cutoff=0.6)
get_close_matches(word, possibilities) ==
    LET good == { i \in 1..Len(possibilities) :
                    AtLeastCutoff(ratio(possibilities[i], word)) }
    IN  IF good = {} THEN << >>
        ELSE LET best == CHOOSE i \in good : \A j \in good :
                            ~ScoredGreater(ratio(possibilities[j], word), possibilities[j],
                                           ratio(possibilities[i], word), possibilities[i])
             IN  << possibilities[best] >>

\* _TITLE_INDEX[k] = v on a dict kept as its items in insertion order
DictSet(d, k, v) ==
    IF \E i \in 1..Len(d) : d[i].key = k
    THEN [i \in 1..Len(d) |-> IF d[i].key = k THEN [key |-> k, book |-> v] ELSE d[i]]
    ELSE Append(d, [key |-> k, book |-> v])

DictHas(d, k) == \E i \in 1..Len(d) : d[i].key = k
DictGet(d, k) == d[CHOOSE i \in 1..Len(d) : d[i].key = k].book

\* _ensure_cache: _TITLE_INDEX from the books, in the order of the file
RECURSIVE TitleIndexFrom(_, _)
TitleIndexFrom(books, d) ==
    IF books = << >> THEN d
    ELSE LET title == strip(Head(books).title)
         IN  TitleIndexFrom(Tail(books),
                            IF title # << >> THEN DictSet(d, _norm(title), Head(books)) ELSE d)

_TITLE_INDEX(books) == TitleIndexFrom(books, << >>)

\* the texts get_summary_by_title returns when it returns no summary
MsgNoTitle == << "Nu am primit niciun titlu. Te rog trimite un titlu de carte valid." >>
MsgNoSummary(title) == << "Cartea \"" >> \o title \o << "\" nu are un rezumat disponibil." >>
MsgCloseNoSummary(title) ==
    << "Am gasit cartea cea mai apropiata \"" >> \o title \o << "\", dar nu are rezumat." >>
MsgNotFound(title) == << "Nu am gasit nicio carte cu titlul \"" >> \o title \o << "\"." >>
MsgCandidateNoSummary(title) == << "Cartea \"" >> \o title \o << "\" nu are rezumat disponibil." >>

\* the stage of get_summary_by_title that resolves the title:
\* "empty", "exact", "substring", "fuzzy" or "none"
SubstringCandidates(index, key) ==
    SelectSeq(index, LAMBDA e : contains(e.key, key) \/ startswith(e.key, key))

AllTitles(books) == [i \in 1..Len(books) |-> books[i].title]

Stage(books, title) ==
    LET index == _TITLE_INDEX(books)
        key == _norm(title)
    IN  IF title = << >> \/ strip(title) = << >> THEN "empty"
        ELSE IF DictHas(index, key) THEN "exact"
        ELSE IF SubstringCandidates(index, key) # << >> THEN "substring"
        ELSE IF get_close_matches(title, AllTitles(books)) # << >> THEN "fuzzy"
        ELSE "none"

\* get_summary_by_title with the substring stage tried before the exact one
get_summary_by_title_substring_first(books, title) ==
    LET index == _TITLE_INDEX(books)
        key == _norm(title)
        candidates == SubstringCandidates(index, key)
    IN  IF title = << >> \/ strip(title) = << >> THEN Ok(MsgNoTitle)
        ELSE IF candidates # << >>
        THEN LET best == candidates[1].book
                 summary == strip(best.summary)
             IN  IF summary # << >> THEN Ok(summary)
                 ELSE Ok(MsgCandidateNoSummary(best.title))
        ELSE Ok(MsgNotFound(title))

\* get_summary_by_title, with the catalog the cache was loaded from
get_summary_by_title(books, title) ==
    LET index == _TITLE_INDEX(books)
        key == _norm(title)
        candidates == SubstringCandidates(index, key)
        close == get_close_matches(title, AllTitles(books))
    IN  IF title = << >> \/ strip(title) = << >> THEN Ok(MsgNoTitle)
        ELSE IF DictHas(index, key)
        THEN LET book == DictGet(index, key)
                 summary == strip(book.summary)
             IN  IF summary # << >> THEN Ok(summary) ELSE Ok(MsgNoSummary(book.title))
        ELSE IF candidates = << >>
        THEN IF close # << >>
             THEN IF ~DictHas(index, _norm(close[1])) THEN Raise("KeyError")
                  ELSE LET book == DictGet(index, _norm(close[1]))
                           summary == strip(book.summary)
                       IN  IF summary # << >> THEN Ok(summary)
                           ELSE Ok(MsgCloseNoSummary(close[1]))
             ELSE Ok(MsgNotFound(title))
        ELSE LET best == candidates[1].book
                 summary == strip(best.summary)
             IN  IF summary # << >> THEN Ok(summary)
                 ELSE Ok(MsgCandidateNoSummary(best.title))

-----------------------------------------------------------------------------
(* Embedding index: backend/app/rag.py *)

BATCH == 64

\* str.isalnum of one character
IsAlnum(c) == IsWordChar(c) /\ c # "_"

\* str.strip("-")
StripDashes(s) ==
    IF \A i \in 1..Len(s) : s[i] = "-"
    THEN << >>
    ELSE LET lo == CHOOSE i \in 1..Len(s) : s[i] # "-" /\ \A j \in 1..(i - 1) : s[j] = "-"
             hi == CHOOSE i \in 1..Len(s) : s[i] # "-" /\ \A j \in (i + 1)..Len(s) : s[j] = "-"
         IN  SubSeq(s, lo, hi)

\* str.replace("--", "-"): one pass from the left over non-overlapping pairs
RECURSIVE ReplaceDashPairs(_)
ReplaceDashPairs(s) ==
    IF Len(s) < 2 THEN s
    ELSE IF s[1] = "-" /\ s[2] = "-"
         THEN << "-" >> \o ReplaceDashPairs(SubSeq(s, 3, Len(s)))
         ELSE << s[1] >> \o ReplaceDashPairs(Tail(s))

\* _slugify
_slugify(title) ==
    ReplaceDashPairs(StripDashes(
        [i \in 1..Len(title) |->
            IF IsAlnum(LowerChar(title[i])) THEN LowerChar(title[i]) ELSE "-"]))

\* _compose_document of a book without authors and tags: the Authors and
\* Tags lines are left out
_compose_document(book) ==
    << "Title: " >> \o strip(book.title) \o << "\n", "Summary: " >> \o strip(book.summary)

\* The embedding capability is opaque.  A direction is a point 0..NVec-1 on a
\* circle; what a call returns for a text is fixed by the behaviour m the
\* provider shows during that call.
Vectors == 0..(NVec - 1)
EmbedModels == 0..(NVec - 1)
Embedding(m, text) == (m * Len(text)) % NVec

\* embed_texts; `outcome` is what client.embeddings.create does when it is
\* called: Ok(m) or Raise(e).  No call is made for an empty list.
embed_texts(texts, outcome) ==
    IF texts = << >> THEN Ok(<< >>)
    ELSE IF ~outcome.ok THEN outcome
    ELSE Ok([i \in 1..Len(texts) |-> Embedding(outcome.value, texts[i])])

\* the angle between two directions: cosine distance grows with it
Distance(u, v) == Min((u - v + NVec) % NVec, (v - u + NVec) % NVec)

\* the documents index_books builds from the books, lines 157-175: a book
\* whose title is empty after the trim is passed over
Titled(book) == strip(book.title) # << >>

BuildDocs(books) ==
    LET titled == SelectSeq(books, Titled)
    IN  << >> \o [i \in 1..Len(titled) |->
            [id |-> _slugify(strip(titled[i].title)),
             document |-> _compose_document(titled[i]),
             metadata |-> [title |-> strip(titled[i].title), authors |-> << >>,
                           tags |-> << >>, summary |-> titled[i].summary]]]

Ids(docs) == { docs[i].id : i \in 1..Len(docs) }
DistinctIds(docs) == Cardinality(Ids(docs)) = Len(docs)

\* an add that stores the vector after the i-th with the i-th id and text
col_add_shifted(c, batch, vectors) ==
    IF ~DistinctIds(batch) THEN Raise("DuplicateIDError")
    ELSE LET held == Ids(c)
         IN  Ok(c \o SelectSeq([i \in 1..Len(batch) |->
                                   [id |-> batch[i].id, document |-> batch[i].document,
                                    metadata |-> batch[i].metadata,
                                    embedding |-> vectors[(i % Len(batch)) + 1]]],
                               LAMBDA d : d.id \notin held))

\* Collection.add of one batch: ids that repeat inside the batch are refused
\* (DuplicateIDError), a document whose id the collection holds is left out
col_add(c, batch, vectors) ==
    IF ~DistinctIds(batch) THEN Raise("DuplicateIDError")
    ELSE LET held == Ids(c)
         IN  Ok(c \o SelectSeq([i \in 1..Len(batch) |->
                                   [id |-> batch[i].id, document |-> batch[i].document,
                                    metadata |-> batch[i].metadata, embedding |-> vectors[i]]],
                               LAMBDA d : d.id \notin held))

NumBatches(docs) == (Len(docs) + BATCH - 1) \div BATCH
BatchOf(docs, b) == SubSeq(docs, (b - 1) * BATCH + 1, Min(b * BATCH, Len(docs)))

\* the loop of lines 179-185 from batch b on; outcomes[b] is what the embedding
\* call of batch b does.  The state when the loop ends or a call raises:
\* [col, added, calls, raised]
RECURSIVE AddBatches(_, _, _, _, _, _)
AddBatches(c, docs, b, outcomes, added, calls) ==
    IF b > NumBatches(docs)
    THEN [col |-> c, added |-> added, calls |-> calls, raised |-> None]
    ELSE LET batch == BatchOf(docs, b)
             vectors == embed_texts([i \in 1..Len(batch) |-> batch[i].document], outcomes[b])
         IN  IF ~vectors.ok
             THEN [col |-> c, added |-> added, calls |-> calls + 1, raised |-> Str(vectors.exc)]
             ELSE LET res == col_add(c, batch, vectors.value)
                  IN  IF ~res.ok
                      THEN [col |-> c, added |-> added, calls |-> calls + 1,
                            raised |-> Str(res.exc)]
                      ELSE AddBatches(res.value, docs, b + 1, outcomes,
                                      added + Len(batch), calls + 1)

\* index_books without the early return of lines 150-152
index_books_unguarded(books, c, force, outcomes) ==
    LET existing_count == Len(c)
        docs == BuildDocs(books)
        cleared == IF force /\ existing_count # 0 THEN << >> ELSE c
        run == AddBatches(cleared, docs, 1, outcomes, 0, 0)
    IN  [col |-> run.col,
         returned |-> IF run.raised = None
                      THEN Ok(<<run.added, Len(docs) - run.added>>)
                      ELSE Raise(run.raised.str),
         calls |-> run.calls]

\* index_books without the delete of lines 154-155
index_books_keeping(books, c, force, outcomes) ==
    LET existing_count == Len(c)
        docs == BuildDocs(books)
    IN  IF existing_count # 0 /\ ~force
        THEN [col |-> c, returned |-> Ok(<<0, existing_count>>), calls |-> 0]
        ELSE LET run == AddBatches(c, docs, 1, outcomes, 0, 0)
             IN  [col |-> run.col,
                  returned |-> IF run.raised = None
                               THEN Ok(<<run.added, Len(docs) - run.added>>)
                               ELSE Raise(run.raised.str),
                  calls |-> run.calls]

\* index_books(force) on the collection c: the collection it leaves, what it
\* returns (<<added, skipped>>) or raises, and the embedding calls it made
index_books(books, c, force, outcomes) ==
    LET existing_count == Len(c)
        docs == BuildDocs(books)
    IN  IF existing_count # 0 /\ ~force
        THEN [col |-> c, returned |-> Ok(<<0, existing_count>>), calls |-> 0]
        ELSE LET cleared == IF force /\ existing_count # 0 THEN << >> ELSE c
                 run == AddBatches(cleared, docs, 1, outcomes, 0, 0)
             IN  [col |-> run.col,
                  returned |-> IF run.raised = None
                               THEN Ok(<<run.added, Len(docs) - run.added>>)
                               ELSE Raise(run.raised.str),
                  calls |-> run.calls]

\* Collection.query(query_embeddings=[q], n_results=n): the n nearest
\* documents (all of them when the collection holds fewer), by non-decreasing
\* distance.  The order of two documents at the same distance is not fixed by
\* the index.  Each result is the dict of parallel lists.
Orderings(S) ==
    { p \in [1..Cardinality(S) -> S] : \A i, j \in 1..Cardinality(S) : p[i] = p[j] => i = j }

NearestOrders(c, q, n) ==
    LET size == Min(n, Len(c))
    IN  { r \in UNION { Orderings(S) : S \in { T \in SUBSET (1..Len(c)) : Cardinality(T) = size } } :
            /\ \A i \in 1..(size - 1) :
                   Distance(q, c[r[i]].embedding) <= Distance(q, c[r[i + 1]].embedding)
            /\ \A i \in 1..size : \A j \in 1..Len(c) :
                   (\A k \in 1..size : r[k] # j)
                       => Distance(q, c[r[i]].embedding) <= Distance(q, c[j].embedding) }

QueryResult(c, q, r) ==
    [ids |-> [i \in 1..Len(r) |-> c[r[i]].id],
     distances |-> [i \in 1..Len(r) |-> Distance(q, c[r[i]].embedding)],
     documents |-> [i \in 1..Len(r) |-> c[r[i]].document],
     metadatas |-> [i \in 1..Len(r) |-> c[r[i]].metadata]]

col_query(c, q, n) == { QueryResult(c, q, r) : r \in NearestOrders(c, q, n) }

\* the matches in the reverse of the order of the result
MatchesReversed(res) ==
    LET n == Len(res.ids)
    IN  [i \in 1..n |->
            [title |-> res.metadatas[n + 1 - i].title,
             summary |-> res.metadatas[n + 1 - i].summary,
             authors |-> res.metadatas[n + 1 - i].authors,
             tags |-> res.metadatas[n + 1 - i].tags,
             distance |-> res.distances[n + 1 - i],
             document |-> res.documents[n + 1 - i],
             id |-> res.ids[n + 1 - i]]]

\* lines 218-237: the matches, in the order of the result
Matches(res) ==
    [i \in 1..Len(res.ids) |->
        [title |-> res.metadatas[i].title,
         summary |-> res.metadatas[i].summary,
         authors |-> res.metadatas[i].authors,
         tags |-> res.metadatas[i].tags,
         distance |-> res.distances[i],
         document |-> res.documents[i],
         id |-> res.ids[i]]]

\* what Collection.query may return to retrieve(query, k), given what the
\* embedding call does; NoResult when retrieve does not get to the query
NoResult == [ids |-> << >>, distances |-> << >>, documents |-> << >>, metadatas |-> << >>]

\* the query made with n_results = k, without max(1, k)
RetrieveQueriesUnclamped(c, query, k, outcome) ==
    IF strip(query) = << >> \/ ~outcome.ok THEN { NoResult }
    ELSE col_query(c, embed_texts(<< strip(query) >>, outcome).value[1], k)

RetrieveQueries(c, query, k, outcome) ==
    IF strip(query) = << >> \/ ~outcome.ok THEN { NoResult }
    ELSE col_query(c, embed_texts(<< strip(query) >>, outcome).value[1], Max(1, k))

\* retrieve on an index whose query refuses an empty collection
retrieve_refusing_empty(c, query, k, outcome, res) ==
    LET q == strip(query)
        q_emb == embed_texts(<< q >>, outcome)
    IN  IF q = << >> THEN Ok(<< >>)
        ELSE IF ~q_emb.ok THEN q_emb
        ELSE IF c = << >> THEN Raise("NoIndexException")
        ELSE Ok(Matches(res))

\* retrieve(query, k) when the query returns res
retrieve(c, query, k, outcome, res) ==
    LET q == strip(query)
        q_emb == embed_texts(<< q >>, outcome)
    IN  IF q = << >> THEN Ok(<< >>)
        ELSE IF ~q_emb.ok THEN q_emb
        ELSE Ok(Matches(res))

\* retrieve whose test of line 210 is made on the query as given
RetrieveEmbedsUntrimmed(query) == query # << >>

\* retrieve makes its embedding call
RetrieveEmbeds(query) == strip(query) # << >>

\* the calls one retrieve makes, in order: embed_texts (line 214) and
\* col.query (line 215), which is reached when the embedding call returned
RetrieveCalls(query, outcome) ==
    IF ~RetrieveEmbeds(query) THEN << >>
    ELSE IF ~outcome.ok THEN << "embed" >>
    ELSE << "embed", "query" >>

-----------------------------------------------------------------------------
(* Inputs *)

\* most calls of index_books, and of retrieve, in one behaviour
MaxCalls == 2

Book(title, summary) == [title |-> title, summary |-> summary]

\* the catalog the requests are answered from; the last book has no summary
Library ==
    << Book(<<"D", "u", "n", "e">>, <<"s", "1">>), Book(<<"D", "u", "n", "e", " ", "M", "e", "s", "s", "i", "a", "h">>, <<"s", "2">>), Book(<<"E", "m", "m", "a">>, <<" ">>) >>

DigitChars == << "0", "1", "2", "3", "4", "5", "6", "7", "8", "9" >>
Digits(i) ==
    << DigitChars[((i \div 100) % 10) + 1], DigitChars[((i \div 10) % 10) + 1],
       DigitChars[(i % 10) + 1] >>

\* a catalog of n books "B001", "B002", ...
BigBooks(n) == [i \in 1..n |-> Book(<< "B" >> \o Digits(i), <<"s">>)]

\* the catalogs index_books is run on: none, a book without title, the
\* library, two titles with one slug, and a catalog of two batches
IndexCatalogs ==
    { << >>,
      << Book(<<" ">>, <<"s", "0">>) >>,
      Library,
      << Book(<<"D", "u", "n", "e">>, <<"s", "1">>), Book(<<"d", "u", "n", "e", "!">>, <<"s", "2">>) >>,
      BigBooks(BATCH + 1) }

\* what the embedding call of each batch does: every call answers with the
\* behaviour m, but the call of batch failAt raises (failAt = 0: none does)
EmbeddingError == "APIConnectionError"
BatchOutcomes(batches, m, failAt) ==
    [b \in 1..batches |-> IF b = failAt THEN Raise(EmbeddingError) ELSE Ok(m)]

EmbedOutcomes == { Ok(m) : m \in EmbedModels } \cup { Raise(EmbeddingError) }

\* the collections a request may find: empty, or one a run of index_books
\* built from the library
Indexed(catalog, m) ==
    index_books(catalog, << >>, FALSE,
                BatchOutcomes(NumBatches(BuildDocs(catalog)), m, 0)).col
LibraryCollections == { << >>, Indexed(Library, 1) }

\* the messages of the requests
Messages ==
    { <<"c", "a", "r", "t", "e">>, <<" ", " ">>, <<" ", "r", "e", "b", "o", "u", " ">>, <<"b", "o", "u">>, <<"O", " ", "c", "a", "r", "t", "e", ",", " ", "I", "d", "i", "o", "t", "u", "l", "e", "!">> }

\* the texts the selection call may return
CompletionError == "APITimeoutError"
Object(title) == [doc |-> "object", title |-> title]
CompletionTexts ==
    { [doc |-> "invalid"], [doc |-> "array"], [doc |-> "null"],
      Object(Absent), Object(None), Object(JNum(<<"5">>)),
      Object(Str(<<"E", "m", "m", "a">>)), Object(Str(<<" ", "D", "u", "n", "e", " ", "M", "e", "s", "s", "i", "a", "h", " ">>)), Object(Str(<<"U", "l", "y", "s", "s", "e", "s">>)) }
CompletionOutcomes == { Ok(t) : t \in CompletionTexts } \cup { Raise(CompletionError) }

\* the texts the selection call of a request may return
RequestTexts == { [doc |-> "invalid"], Object(Str(<<"E", "m", "m", "a">>)), Object(Str(<<"D", "u", "n", "e", " ", "M", "e", "s", "s", "i", "a", "h">>)) }
RequestCompletions == { Ok(t) : t \in RequestTexts } \cup { Raise(CompletionError) }

\* the events of the streaming call: text deltas "Dune", "a\nb" and "\n",
\* and an event of another type
Delta(d) == [type |-> "response.output_text.delta", delta |-> d]
Deltas == { << Text("Dune") >>, << Text("a"), Text("b") >>, << Text(""), Text("") >> }
ProviderEvents == { Delta(d) : d \in Deltas } \cup { [type |-> "response.created"] }
StreamError == "APIError"

-----------------------------------------------------------------------------
(* State *)

VARIABLES
    books,          \* the catalog file, data/book_summaries.json
    col,            \* the persistent collection "books": its documents in insertion order
    _collection,    \* rag._collection of the running process: None or Str of the name
    embedCalls,     \* calls of the embedding capability so far
    log,            \* the calls of index_books so far: what each was given, did and left
    pc,             \* where the request, or the call of a function, stands
    message,        \* respond: the trimmed message
    context_items,  \* respond: what retrieve returned
    title,          \* respond: what _select_title returned
    summary,        \* _stream_final_with_summary: the summary
    chunks,         \* the chunks the response generator yielded
    events,         \* the events the streaming call yielded
    calls,          \* the components the request invoked, in order
    failure,        \* the exception a remote capability raised in the request, or None
    args,           \* the arguments of the function called
    result,         \* what the function returned or raised
    runs,           \* the executions of index_books under way, one per process
    parked          \* the request that waits while another one runs, or None

storeVars == << books, col, _collection, embedCalls, log >>
requestVars == << pc, message, context_items, title, summary, chunks, events, calls, failure >>
callVars == << args, result >>
otherVars == << runs, parked >>
vars == << books, col, _collection, embedCalls, log, pc, message, context_items, title,
           summary, chunks, events, calls, failure, args, result, runs, parked >>

NoRequest ==
    /\ message = << >>
    /\ context_items = << >>
    /\ title = << >>
    /\ summary = << >>
    /\ chunks = << >>
    /\ events = << >>
    /\ calls = << >>
    /\ failure = None

NoCall == args = None /\ result = None

NoOthers == runs = << >> /\ parked = None

-----------------------------------------------------------------------------
(* Requests: backend/app/main.py, respond *)

\* FinalResponse(...).model_dump()
FinalResponse(recommendation, text) ==
    [final |-> TRUE, recommendation |-> recommendation, summary |-> text]

ErrorPayload(e) == [error |-> Str(<< e >>)]

\* the text of lines 163-164, written without its diacritics
PolicyMessage ==
    << Text("As vrea sa pastram conversatia politica si respectuoasa. Poti reformula mesajul fara termeni ofensatori?") >>

\* respond without the validation of lines 202-203
RespondOutcomeUnvalidated(m, bad, items, chosen) ==
    IF bad # None
    THEN [pc |-> "policy", calls |-> << "is_offensive" >>, context_items |-> << >>,
          title |-> << >>, failure |-> None]
    ELSE IF ~items.ok
    THEN [pc |-> "raised", calls |-> << "is_offensive", "embed" >>,
          context_items |-> << >>, title |-> << >>, failure |-> Str(<< items.exc >>)]
    ELSE IF ~chosen.ok
    THEN [pc |-> "raised", calls |-> << "is_offensive", "embed", "query", "select" >>,
          context_items |-> items.value, title |-> << >>,
          failure |-> Str(<< chosen.exc >>)]
    ELSE [pc |-> "stream",
          calls |-> << "is_offensive", "embed", "query" >>
                    \o (IF SelectCalls(items.value) THEN << "select" >> ELSE << >>),
          context_items |-> items.value, title |-> chosen.value, failure |-> None]

\* respond with retrieve called ahead of the moderation check
RespondOutcomeRetrievingFirst(m, bad, items, chosen) ==
    IF m = << >>
    THEN [pc |-> "rejected", calls |-> << >>, context_items |-> << >>,
          title |-> << >>, failure |-> None]
    ELSE IF ~items.ok
    THEN [pc |-> "raised", calls |-> << "embed" >>,
          context_items |-> << >>, title |-> << >>, failure |-> Str(<< items.exc >>)]
    ELSE IF bad # None
    THEN [pc |-> "policy", calls |-> << "embed", "query", "is_offensive" >>,
          context_items |-> << >>, title |-> << >>, failure |-> None]
    ELSE IF ~chosen.ok
    THEN [pc |-> "raised", calls |-> << "embed", "query", "is_offensive", "select" >>,
          context_items |-> items.value, title |-> << >>,
          failure |-> Str(<< chosen.exc >>)]
    ELSE [pc |-> "stream",
          calls |-> << "embed", "query", "is_offensive" >>
                    \o (IF SelectCalls(items.value) THEN << "select" >> ELSE << >>),
          context_items |-> items.value, title |-> chosen.value, failure |-> None]

\* respond without the moderation branch of lines 205-213
RespondOutcomeUngated(m, bad, items, chosen) ==
    IF m = << >>
    THEN [pc |-> "rejected", calls |-> << >>, context_items |-> << >>,
          title |-> << >>, failure |-> None]
    ELSE IF ~items.ok
    THEN [pc |-> "raised", calls |-> << "is_offensive", "embed" >>,
          context_items |-> << >>, title |-> << >>, failure |-> Str(<< items.exc >>)]
    ELSE IF ~chosen.ok
    THEN [pc |-> "raised", calls |-> << "is_offensive", "embed", "query", "select" >>,
          context_items |-> items.value, title |-> << >>,
          failure |-> Str(<< chosen.exc >>)]
    ELSE [pc |-> "stream",
          calls |-> << "is_offensive", "embed", "query" >>
                    \o (IF SelectCalls(items.value) THEN << "select" >> ELSE << >>),
          context_items |-> items.value, title |-> chosen.value, failure |-> None]

\* Where respond leaves the request: lines 201-227.  The handler runs to its
\* return without a suspension: retrieve and _select_title are called in its
\* body, outside the generator, so what they raise leaves respond.
\* m is the trimmed message, bad what is_offensive returned, items what
\* retrieve did and chosen what _select_title did.
RespondOutcome(m, bad, items, chosen) ==
    IF m = << >>
    THEN [pc |-> "rejected", calls |-> << >>, context_items |-> << >>,
          title |-> << >>, failure |-> None]
    ELSE IF bad # None
    THEN [pc |-> "policy", calls |-> << "is_offensive" >>, context_items |-> << >>,
          title |-> << >>, failure |-> None]
    ELSE IF ~items.ok
    THEN [pc |-> "raised", calls |-> << "is_offensive", "embed" >>,
          context_items |-> << >>, title |-> << >>, failure |-> Str(<< items.exc >>)]
    ELSE IF ~chosen.ok
    THEN [pc |-> "raised", calls |-> << "is_offensive", "embed", "query", "select" >>,
          context_items |-> items.value, title |-> << >>,
          failure |-> Str(<< chosen.exc >>)]
    ELSE [pc |-> "stream",
          calls |-> << "is_offensive", "embed", "query" >>
                    \o (IF SelectCalls(items.value) THEN << "select" >> ELSE << >>),
          context_items |-> items.value, title |-> chosen.value, failure |-> None]

\* a respond whose retrieve keeps the query it was given in the index
RespondWithStoringQuery(msgs, embeddings, completions) ==
    /\ pc = "idle"
    /\ \E msg \in msgs :
         LET m == strip(msg)
             bad == is_offensive(m)
         IN  \E embedding \in embeddings, completion \in completions :
               \E res \in RetrieveQueries(col, m, 3, embedding) :
                  LET items == retrieve(col, m, 3, embedding, res)
                      chosen == IF items.ok THEN _select_title(m, items.value, completion)
                                ELSE items
                  IN  \E out \in { RespondOutcome(m, bad, items, chosen) } :
                      /\ message' = m
                      /\ pc' = out.pc
                      /\ calls' = out.calls
                      /\ context_items' = out.context_items
                      /\ title' = out.title
                      /\ failure' = out.failure
                      /\ _collection' = IF Len(out.calls) > 1 THEN Str("books")
                                        ELSE _collection
                      /\ col' = IF items.ok /\ Len(out.calls) > 1 /\ Len(col) < 4
                                THEN Append(col, [id |-> m, document |-> m,
                                                  metadata |-> [title |-> m, authors |-> << >>,
                                                                tags |-> << >>, summary |-> << >>],
                                                  embedding |-> 0])
                                ELSE col
    /\ UNCHANGED << summary, chunks, events >>
    /\ UNCHANGED << books, embedCalls, log, callVars, otherVars >>

\* respond, for a message of msgs and answers of the remote capabilities
\* out of embeddings and completions.  retrieve, when it is reached, binds
\* the handle of the collection (get_collection, line 213 of rag.py) and
\* reads the collection; nothing is added to it and the catalog is read
\* only.
RespondWith(msgs, embeddings, completions) ==
    /\ pc = "idle"
    /\ \E msg \in msgs :
         LET m == strip(msg)
             bad == is_offensive(m)
         IN  \E embedding \in embeddings, completion \in completions :
               \E res \in RetrieveQueries(col, m, 3, embedding) :
                  LET items == retrieve(col, m, 3, embedding, res)
                      chosen == IF items.ok THEN _select_title(m, items.value, completion)
                                ELSE items
                  IN  \E out \in { RespondOutcome(m, bad, items, chosen) } :
                      /\ message' = m
                      /\ pc' = out.pc
                      /\ calls' = out.calls
                      /\ context_items' = out.context_items
                      /\ title' = out.title
                      /\ failure' = out.failure
                      /\ _collection' = IF Len(out.calls) > 1 THEN Str("books")
                                        ELSE _collection
    /\ UNCHANGED << summary, chunks, events >>
    /\ UNCHANGED << books, col, embedCalls, log, callVars, otherVars >>

Respond == RespondWith(Messages, EmbedOutcomes, RequestCompletions)

\* a policy reply whose token frame names the term that was found
PolicyTokenNamingTerm ==
    /\ pc = "policy"
    /\ chunks' = Append(chunks, _sse(<< Text(is_offensive(message).str) >>, "token"))
    /\ pc' = "policy_final"
    /\ UNCHANGED << message, context_items, title, summary, events, calls, failure >>
    /\ UNCHANGED << storeVars, callVars, otherVars >>

\* _stream_policy_reply: the token frame, then the final frame
PolicyToken ==
    /\ pc = "policy"
    /\ chunks' = Append(chunks, _sse(PolicyMessage, "token"))
    /\ pc' = "policy_final"
    /\ UNCHANGED << message, context_items, title, summary, events, calls, failure >>
    /\ UNCHANGED << storeVars, callVars, otherVars >>

PolicyFinal ==
    /\ pc = "policy_final"
    /\ chunks' = Append(chunks, _sse(json_dumps(FinalResponse(None, None)), "final"))
    /\ pc' = "closed"
    /\ UNCHANGED << message, context_items, title, summary, events, calls, failure >>
    /\ UNCHANGED << storeVars, callVars, otherVars >>

\* event_generator, lines 223-225: the exception becomes the error frame and
\* the generator ends
ErrorFrame(e) == _sse(json_dumps(ErrorPayload(e)), "error")

\* _stream_final_with_summary looking the summary up for an empty title too
StreamOpenAlwaysLookingUp ==
    /\ pc = "stream"
    /\ LET found == get_summary_by_title(books, title)
       IN  /\ calls' = calls \o << "get_summary_by_title" >>
                             \o (IF found.ok THEN << "stream" >> ELSE << >>)
           /\ \/ /\ found.ok
                 /\ summary' = found.value
                 /\ pc' = "streaming"
                 /\ UNCHANGED << chunks, failure >>
              \/ /\ found.ok
                 /\ summary' = found.value
                 /\ failure' = Str(<< StreamError >>)
                 /\ chunks' = Append(chunks, ErrorFrame(StreamError))
                 /\ pc' = "closed"
              \/ /\ ~found.ok
                 /\ chunks' = Append(chunks, ErrorFrame(found.exc))
                 /\ pc' = "closed"
                 /\ UNCHANGED << summary, failure >>
    /\ UNCHANGED << message, context_items, title, events >>
    /\ UNCHANGED << storeVars, callVars, otherVars >>

\* _stream_final_with_summary up to the first event: the summary is looked
\* up (lines 120-121) and the streaming call is opened (line 147)
StreamOpen ==
    /\ pc = "stream"
    /\ LET found == IF title # << >> THEN get_summary_by_title(books, title) ELSE Ok(<< >>)
       IN  /\ calls' = calls \o (IF title # << >> THEN << "get_summary_by_title" >> ELSE << >>)
                             \o (IF found.ok THEN << "stream" >> ELSE << >>)
           /\ \/ /\ found.ok
                 /\ summary' = found.value
                 /\ pc' = "streaming"
                 /\ UNCHANGED << chunks, failure >>
              \/ /\ found.ok
                 /\ summary' = found.value
                 /\ failure' = Str(<< StreamError >>)
                 /\ chunks' = Append(chunks, ErrorFrame(StreamError))
                 /\ pc' = "closed"
              \/ /\ ~found.ok
                 /\ chunks' = Append(chunks, ErrorFrame(found.exc))
                 /\ pc' = "closed"
                 /\ UNCHANGED << summary, failure >>
    /\ UNCHANGED << message, context_items, title, events >>
    /\ UNCHANGED << storeVars, callVars, otherVars >>

\* lines 151-153: the next event of the stream; a text delta is yielded as a
\* token frame, an event of another type is passed over
StreamEventOf(provided) ==
    /\ pc = "streaming"
    /\ Len(events) < MaxEvents
    /\ \E event \in provided :
         /\ events' = Append(events, event)
         /\ chunks' = IF event.type = "response.output_text.delta"
                      THEN Append(chunks, _sse(event.delta, "token"))
                      ELSE chunks
    /\ UNCHANGED << pc, message, context_items, title, summary, calls, failure >>
    /\ UNCHANGED << storeVars, callVars, otherVars >>

StreamEvent == StreamEventOf(ProviderEvents)

\* the final frame without the summary that was looked up
StreamEndWithoutSummary ==
    /\ pc = "streaming"
    /\ chunks' = Append(chunks,
                        _sse(json_dumps(FinalResponse([title |-> Str(title)], None)), "final"))
    /\ pc' = "closed"
    /\ UNCHANGED << message, context_items, title, summary, events, calls, failure >>
    /\ UNCHANGED << storeVars, callVars, otherVars >>

\* lines 155-160: the stream ended, the final frame is yielded
StreamEnd ==
    /\ pc = "streaming"
    /\ chunks' = Append(chunks,
                        _sse(json_dumps(FinalResponse([title |-> Str(title)],
                                                      IF summary # << >> THEN Str(summary)
                                                      ELSE None)),
                             "final"))
    /\ pc' = "closed"
    /\ UNCHANGED << message, context_items, title, summary, events, calls, failure >>
    /\ UNCHANGED << storeVars, callVars, otherVars >>

\* a failure of the streaming call after which the final frame is still sent
StreamFailThenFinal ==
    /\ pc = "streaming"
    /\ failure' = Str(<< StreamError >>)
    /\ chunks' = chunks \o << ErrorFrame(StreamError),
                              _sse(json_dumps(FinalResponse([title |-> Str(title)], None)),
                                   "final") >>
    /\ pc' = "closed"
    /\ UNCHANGED << message, context_items, title, summary, events, calls >>
    /\ UNCHANGED << storeVars, callVars, otherVars >>

\* the streaming call raised while the stream was read
StreamFail ==
    /\ pc = "streaming"
    /\ failure' = Str(<< StreamError >>)
    /\ chunks' = Append(chunks, ErrorFrame(StreamError))
    /\ pc' = "closed"
    /\ UNCHANGED << message, context_items, title, summary, events, calls >>
    /\ UNCHANGED << storeVars, callVars, otherVars >>

\* the request is over and the next one arrives
NextRequest ==
    /\ pc \in { "rejected", "raised", "closed" }
    /\ pc' = "idle"
    /\ message' = << >>
    /\ context_items' = << >>
    /\ title' = << >>
    /\ summary' = << >>
    /\ chunks' = << >>
    /\ events' = << >>
    /\ calls' = << >>
    /\ failure' = None
    /\ UNCHANGED << storeVars, callVars, otherVars >>

Init ==
    /\ books = Library
    /\ col \in LibraryCollections
    /\ _collection = Str("books")
    /\ embedCalls = 0
    /\ log = << >>
    /\ pc = "idle"
    /\ NoRequest
    /\ NoCall
    /\ NoOthers

Next ==
    \/ Respond
    \/ PolicyToken
    \/ PolicyFinal
    \/ StreamOpen
    \/ StreamEvent
    \/ StreamEnd
    \/ StreamFail
    \/ NextRequest

Spec == Init /\ [][Next]_vars

-----------------------------------------------------------------------------
(* Two requests on one server.  Every call of respond has locals of its own;
   the locals of the request that is not running are kept in `parked`, and
   the two requests take turns between any two of their steps. *)

\* the locals of the running request
Locals ==
    [pc |-> pc, message |-> message, context_items |-> context_items, title |-> title,
     summary |-> summary, chunks |-> chunks, events |-> events, calls |-> calls,
     failure |-> failure]

\* the locals of a request that has not arrived
IdleRequest ==
    [pc |-> "idle", message |-> << >>, context_items |-> << >>, title |-> << >>,
     summary |-> << >>, chunks |-> << >>, events |-> << >>, calls |-> << >>,
     failure |-> None]

\* a switch under which the selected title is one value shared by the two
\* requests
SwitchSharingTitle ==
    /\ parked # None
    /\ parked' = Locals
    /\ pc' = parked.pc
    /\ message' = parked.message
    /\ context_items' = parked.context_items
    /\ title' = title
    /\ summary' = parked.summary
    /\ chunks' = parked.chunks
    /\ events' = parked.events
    /\ calls' = parked.calls
    /\ failure' = parked.failure
    /\ UNCHANGED << storeVars, callVars, runs >>

\* the running request waits and the waiting one runs
Switch ==
    /\ parked # None
    /\ parked' = Locals
    /\ pc' = parked.pc
    /\ message' = parked.message
    /\ context_items' = parked.context_items
    /\ title' = parked.title
    /\ summary' = parked.summary
    /\ chunks' = parked.chunks
    /\ events' = parked.events
    /\ calls' = parked.calls
    /\ failure' = parked.failure
    /\ UNCHANGED << storeVars, callVars, runs >>

PairMessages ==
    { <<"c", "a", "r", "t", "e">>, <<"b", "o", "u">>, <<"O", " ", "c", "a", "r", "t", "e", ",", " ", "I", "d", "i", "o", "t", "u", "l", "e", "!">> }
PairCompletions == { Ok([doc |-> "invalid"]), Ok(Object(Str(<<"E", "m", "m", "a">>))) }
PairEvents == { Delta(<< Text("Dune") >>), [type |-> "response.created"] }

PairRespond == RespondWith(PairMessages, { Ok(1) }, PairCompletions)
PairStreamEvent == StreamEventOf(PairEvents)

InitPair ==
    /\ books = Library
    /\ col = Indexed(Library, 1)
    /\ _collection = Str("books")
    /\ embedCalls = 0
    /\ log = << >>
    /\ pc = "idle"
    /\ NoRequest
    /\ NoCall
    /\ runs = << >>
    /\ parked = IdleRequest

NextPair ==
    \/ PairRespond
    \/ PolicyToken
    \/ PolicyFinal
    \/ StreamOpen
    \/ PairStreamEvent
    \/ StreamEnd
    \/ StreamFail
    \/ Switch

SpecPair == InitPair /\ [][NextPair]_vars

-----------------------------------------------------------------------------
(* The index: init_store and index_books of backend/app/rag.py *)

\* init_store(force): get_collection binds the handle of the process, then
\* index_books runs to its return or to the exception it raises.  The
\* embedding capability shows the behaviour m, and the call of batch failAt
\* fails.
IndexModels == { 1 }

InitStore ==
    /\ pc = "index"
    /\ Len(log) < MaxCalls
    /\ LET batches == NumBatches(BuildDocs(books))
       IN  \E force \in BOOLEAN, m \in IndexModels, failAt \in 0..batches :
         \E run \in { index_books(books, col, force, BatchOutcomes(batches, m, failAt)) },
            docs \in { BuildDocs(books) } :
         LET after == { run.col[i] : i \in 1..Len(run.col) }
             held == Ids(run.col)
             failed == IF failAt > 0 /\ run.calls >= failAt THEN failAt ELSE 0
         IN  /\ col' = run.col
             /\ embedCalls' = embedCalls + run.calls
             /\ log' = Append(log, [force |-> force,
                                    fresh |-> _collection = None,
                                    before |-> Len(col),
                                    returned |-> run.returned,
                                    calls |-> run.calls,
                                    model |-> m,
                                    sizes |-> << >> \o [b \in 1..run.calls |->
                                                          Len(BatchOf(docs, b))],
                                    changed |-> run.col # col,
                                    count |-> Len(run.col),
                                    failed |-> failed,
                                    lost |-> \E i \in 1..Len(col) : col[i] \notin after,
                                    missing |-> \E i \in 1..Len(docs) :
                                                  /\ i <= (failed - 1) * BATCH
                                                  /\ docs[i].id \notin held])
    /\ _collection' = Str("books")
    /\ UNCHANGED << books, requestVars, callVars, otherVars >>

\* the process ends and a new one starts on the same persistent directory
Restart ==
    /\ pc = "index"
    /\ _collection # None
    /\ _collection' = None
    /\ UNCHANGED << books, col, embedCalls, log, requestVars, callVars, otherVars >>

\* the index the first process finds: empty, or built from an earlier
\* catalog
IndexCollections == { << >>, Indexed(Library, 1) }

InitIndex ==
    /\ books \in IndexCatalogs
    /\ col \in IndexCollections
    /\ _collection = None
    /\ embedCalls = 0
    /\ log = << >>
    /\ pc = "index"
    /\ NoRequest
    /\ NoCall
    /\ NoOthers

NextIndex ==
    \/ InitStore
    \/ Restart

SpecIndex == InitIndex /\ [][NextIndex]_vars

-----------------------------------------------------------------------------
(* Startup: _on_startup of backend/app/main.py, then the requests the
   process serves.  args.catalog is the condition of the catalog source
   when the process starts. *)

CatalogSources == { "missing", "not_a_list", "list" }

\* _load_books: the file is missing, holds JSON that is no list, or holds
\* the list data
_load_books(source, data) ==
    IF source = "missing" THEN Raise("FileNotFoundError")
    ELSE IF source = "not_a_list" THEN Raise("ValueError")
    ELSE Ok(data)

\* init_store(force = False) as _on_startup calls it: index_books loads the
\* catalog first (line 147 of rag.py), and what it raises leaves init_store
StartupOutcome(loaded, run) ==
    IF loaded.ok THEN run ELSE [col |-> col, returned |-> loaded, calls |-> 0]

\* _on_startup: whatever init_store raises is caught and printed, and the
\* startup step returns: the process goes on to serve requests
OnStartup ==
    /\ pc = "starting"
    /\ LET batches == NumBatches(BuildDocs(books))
       IN  \E m \in IndexModels, failAt \in 0..batches :
             \E out \in { StartupOutcome(_load_books(args.catalog, books),
                                          index_books(books, col, FALSE,
                                                      BatchOutcomes(batches, m, failAt))) } :
                /\ col' = out.col
                /\ embedCalls' = embedCalls + out.calls
                /\ result' = out.returned
    /\ _collection' = IF _load_books(args.catalog, books).ok THEN Str("books")
                      ELSE _collection
    /\ pc' = "idle"
    /\ UNCHANGED << books, log, args, otherVars >>
    /\ UNCHANGED << message, context_items, title, summary, chunks, events, calls, failure >>

InitStartup ==
    /\ args \in [catalog : CatalogSources]
    /\ books = IF args.catalog = "list" THEN Library ELSE << >>
    /\ col = << >>
    /\ _collection = None
    /\ embedCalls = 0
    /\ log = << >>
    /\ pc = "starting"
    /\ NoRequest
    /\ result = None
    /\ NoOthers

NextStartup ==
    \/ OnStartup
    \/ Respond
    \/ PolicyToken
    \/ PolicyFinal
    \/ StreamOpen
    \/ StreamEvent
    \/ StreamEnd
    \/ StreamFail
    \/ NextRequest

SpecStartup == InitStartup /\ [][NextStartup]_vars

-----------------------------------------------------------------------------
(* Overlapping executions of index_books, each in a process of its own, on
   one persistent collection.  A step is one call of the collection or one
   call of the embedding capability; index_books takes no lock. *)

Executions == { 1, 2 }

\* an execution that has not started; `embedded` keeps the ids whose
\* documents the execution sent to the embedding capability
NewRun(force) ==
    [pc |-> "count", force |-> force, ids |-> << >>, docs |-> << >>, b |-> 1,
     vectors |-> << >>, added |-> 0, embedded |-> {}, returned |-> None]

\* lines 157-179: the documents are built and the loop is entered, or
\* index_books returns when there is no document
EnterLoop(run, docs) ==
    IF docs = << >>
    THEN [run EXCEPT !.pc = "done", !.docs = docs, !.returned = Ok(<< 0, 0 >>)]
    ELSE [run EXCEPT !.pc = "embed", !.docs = docs]

\* lines 147-152: col.count() and the early return
RunCount(e) ==
    /\ pc = "overlap"
    /\ runs[e].pc = "count"
    /\ LET existing_count == Len(col)
       IN  runs' = [runs EXCEPT ![e] =
                       IF existing_count # 0 /\ ~runs[e].force
                       THEN [@ EXCEPT !.pc = "done",
                                      !.returned = Ok(<< 0, existing_count >>)]
                       ELSE IF runs[e].force /\ existing_count # 0
                       THEN [@ EXCEPT !.pc = "get"]
                       ELSE EnterLoop(@, BuildDocs(books))]
    /\ UNCHANGED << storeVars, requestVars, callVars, parked >>

\* line 155: col.get()["ids"]
RunGet(e) ==
    /\ pc = "overlap"
    /\ runs[e].pc = "get"
    /\ runs' = [runs EXCEPT ![e] = [@ EXCEPT !.pc = "delete",
                                             !.ids = [i \in 1..Len(col) |-> col[i].id]]]
    /\ UNCHANGED << storeVars, requestVars, callVars, parked >>

\* line 155: col.delete(ids=...); an empty list of ids is refused by some
\* versions of the collection and deletes nothing in others
RunDelete(e) ==
    /\ pc = "overlap"
    /\ runs[e].pc = "delete"
    /\ LET gone == { runs[e].ids[i] : i \in 1..Len(runs[e].ids) }
       IN  \/ /\ col' = SelectSeq(col, LAMBDA d : d.id \notin gone)
              /\ runs' = [runs EXCEPT ![e] = EnterLoop(@, BuildDocs(books))]
           \/ /\ gone = {}
              /\ col' = col
              /\ runs' = [runs EXCEPT ![e] = [@ EXCEPT !.pc = "done",
                                                       !.returned = Raise("ValueError")]]
    /\ UNCHANGED << books, _collection, embedCalls, log, requestVars, callVars, parked >>

\* line 183: the embedding call of batch b
RunEmbed(e) ==
    /\ pc = "overlap"
    /\ runs[e].pc = "embed"
    /\ \E outcome \in { Ok(m) : m \in IndexModels } \cup { Raise(EmbeddingError) } :
          LET batch == BatchOf(runs[e].docs, runs[e].b)
              vectors == embed_texts([i \in 1..Len(batch) |-> batch[i].document], outcome)
          IN  runs' = [runs EXCEPT ![e] =
                          IF vectors.ok
                          THEN [@ EXCEPT !.pc = "add", !.vectors = vectors.value,
                                         !.embedded = @ \cup Ids(batch)]
                          ELSE [@ EXCEPT !.pc = "done", !.embedded = @ \cup Ids(batch),
                                         !.returned = Raise(vectors.exc)]]
    /\ embedCalls' = embedCalls + 1
    /\ UNCHANGED << books, col, _collection, log, requestVars, callVars, parked >>

\* lines 184-187: col.add of batch b, then the next batch or the return
RunAdd(e) ==
    /\ pc = "overlap"
    /\ runs[e].pc = "add"
    /\ LET batch == BatchOf(runs[e].docs, runs[e].b)
           res == col_add(col, batch, runs[e].vectors)
           added == runs[e].added + Len(batch)
       IN  IF ~res.ok
           THEN /\ col' = col
                /\ runs' = [runs EXCEPT ![e] = [@ EXCEPT !.pc = "done",
                                                         !.returned = Raise(res.exc)]]
           ELSE /\ col' = res.value
                /\ runs' = [runs EXCEPT ![e] =
                               IF runs[e].b + 1 > NumBatches(runs[e].docs)
                               THEN [@ EXCEPT !.pc = "done", !.added = added,
                                              !.returned = Ok(<< added, Len(runs[e].docs) - added >>)]
                               ELSE [@ EXCEPT !.pc = "embed", !.added = added, !.b = @ + 1]]
    /\ UNCHANGED << books, _collection, embedCalls, log, requestVars, callVars, parked >>

OverlapCatalogs ==
    { Library,
      << Book(<<"D", "u", "n", "e">>, <<"s", "1">>), Book(<<"d", "u", "n", "e", "!">>, <<"s", "2">>) >> }

InitOverlap ==
    /\ books \in OverlapCatalogs
    /\ col \in { << >>, Indexed(Library, 1) }
    /\ _collection = None
    /\ embedCalls = 0
    /\ log = << >>
    /\ pc = "overlap"
    /\ NoRequest
    /\ NoCall
    /\ runs \in [Executions -> { NewRun(force) : force \in BOOLEAN }]
    /\ parked = None

NextOverlap ==
    \E e \in Executions :
        \/ RunCount(e)
        \/ RunGet(e)
        \/ RunDelete(e)
        \/ RunEmbed(e)
        \/ RunAdd(e)

SpecOverlap == InitOverlap /\ [][NextOverlap]_vars

-----------------------------------------------------------------------------
(* retrieve of backend/app/rag.py, on a collection index_books built *)

Queries == { <<"c", "a", "r", "t", "e">>, <<" ", "f", "a", "n", "t", "a", "s", "y", " ">>, <<" ", " ">> }
Ks == { -1, 0, 1, 2, 3, 5 }

RetrieveCollections == { << >> } \cup { Indexed(Library, m) : m \in EmbedModels }

Retrieve ==
    /\ pc \in { "call", "return" }
    /\ Len(log) < MaxCalls
    /\ \E query \in Queries, k \in Ks, embedding \in EmbedOutcomes :
         \E res \in RetrieveQueries(col, query, k, embedding),
            made \in { RetrieveCalls(query, embedding) } :
            /\ args' = [query |-> query, k |-> k, embedding |-> embedding]
            /\ result' = retrieve(col, query, k, embedding, res)
            /\ calls' = made
            /\ embedCalls' = embedCalls + Cardinality({ i \in 1..Len(made) : made[i] = "embed" })
            /\ log' = Append(log, [query |-> strip(query), calls |-> made])
    /\ pc' = "return"
    /\ UNCHANGED << books, col, _collection >>
    /\ UNCHANGED << message, context_items, title, summary, chunks, events, failure >>
    /\ UNCHANGED otherVars

InitRetrieve ==
    /\ books = Library
    /\ col \in RetrieveCollections
    /\ _collection = Str("books")
    /\ embedCalls = 0
    /\ log = << >>
    /\ pc = "call"
    /\ NoRequest
    /\ NoCall
    /\ NoOthers

NextRetrieve == Retrieve

SpecRetrieve == InitRetrieve /\ [][NextRetrieve]_vars

-----------------------------------------------------------------------------
(* _select_title of backend/app/main.py, on the candidates and on what the
   completion returns *)

\* most matches in the context of one selection
MaxContext == 2

Item(t) ==
    [title |-> t, summary |-> <<"s">>, authors |-> << >>, tags |-> << >>, distance |-> 0,
     document |-> << >>, id |-> _slugify(t)]

ItemTitles == { <<"D", "u", "n", "e">>, <<"D", "u", "n", "e", " ", "M", "e", "s", "s", "i", "a", "h">>, <<" ", "E", "m", "m", "a">>, <<"5">>, <<" ">>, << >> }

SelectContexts ==
    UNION { [1..n -> { Item(t) : t \in ItemTitles }] : n \in 0..MaxContext }

SelectTitle ==
    /\ pc = "call"
    /\ result' = _select_title(args.message, args.context_items, args.completion)
    /\ calls' = IF SelectCalls(args.context_items) THEN << "select" >> ELSE << >>
    /\ pc' = "return"
    /\ UNCHANGED << args, storeVars >>
    /\ UNCHANGED << message, context_items, title, summary, chunks, events, failure >>
    /\ UNCHANGED otherVars

InitSelect ==
    /\ books = Library
    /\ col = << >>
    /\ _collection = None
    /\ embedCalls = 0
    /\ log = << >>
    /\ pc = "call"
    /\ NoRequest
    /\ args \in [message : { <<"c", "a", "r", "t", "e">> }, context_items : SelectContexts,
                 completion : CompletionOutcomes]
    /\ result = None
    /\ NoOthers

NextSelect == SelectTitle

SpecSelect == InitSelect /\ [][NextSelect]_vars

-----------------------------------------------------------------------------
(* get_summary_by_title of backend/app/tools.py, on a loaded catalog *)

SummaryCatalogs ==
    { Library,
      << Book(<<"D", "u", "n", "e", " ", "M", "e", "s", "s", "i", "a", "h">>, <<"s", "2">>), Book(<<"D", "u", "n", "e">>, <<" ", "s", "1", " ">>) >>,
      << Book(<<"D", "u", "n", "e">>, <<"s", "1">>), Book(<<"D", "U", "N", "E", " ">>, <<"s", "9">>), Book(<<"D", "u", "n", "e", " ", "M", "e", "s", "s", "i", "a", "h">>, << >>) >>,
      << Book(<<" ">>, <<"s", "0">>), Book(<<"E", "m", "m", "a">>, <<"s", "3">>) >>,
      << Book(<<"E", "m", "m", "a">>, << >>), Book(<<"D", "u", "n", "e">>, <<"s", "1">>) >>,
      << >> }

SummaryTitles ==
    { <<"D", "u", "n", "e">>, <<" ", "d", "u", "n", "e", " ">>, <<"D", "U", "N", "E", " ", "M", "E", "S", "S", "I", "A", "H">>, <<"u", "n", "e">>, <<"m", "e", "s", "s">>, <<"D", "n", "u", "e">>, <<"E", "m", "a", "m">>,
      <<"e", "m", "m", "a">>, <<" ", "x">>, <<"z", "z", "z">>, <<" ", " ">>, << >> }

GetSummary ==
    /\ pc = "call"
    /\ result' = get_summary_by_title(args.books, args.title)
    /\ pc' = "return"
    /\ UNCHANGED << args, storeVars >>
    /\ UNCHANGED << message, context_items, title, summary, chunks, events, calls, failure >>
    /\ UNCHANGED otherVars

InitSummary ==
    /\ books = Library
    /\ col = << >>
    /\ _collection = None
    /\ embedCalls = 0
    /\ log = << >>
    /\ pc = "call"
    /\ NoRequest
    /\ args \in [books : SummaryCatalogs, title : SummaryTitles]
    /\ result = None
    /\ NoOthers

NextSummary == GetSummary

SpecSummary == InitSummary /\ [][NextSummary]_vars


-----------------------------------------------------------------------------
(* Properties of a request (Spec) *)

\* the frames a reader of the response body has received
Received == Frames(chunks)

\* the request is over: respond raised, or the generator ended
RequestOver == pc \in { "raised", "closed" }

Invoked(component) == \E i \in 1..Len(calls) : calls[i] = component

\* C1: when a request that respond took on is over, its event stream holds
\* exactly one terminal frame (final or error), that frame is the last frame
\* of the stream, and only token frames precede it.
C1_OneTerminalFrameLast ==
    RequestOver =>
        /\ Received # << >>
        /\ Received[Len(Received)].event \in { "final", "error" }
        /\ \A i \in 1..(Len(Received) - 1) : Received[i].event = "token"

\* C2: for a message in which is_offensive finds a disallowed term, the
\* embedding call, the index query, the selection call, the summary lookup and
\* the streaming call are never invoked, respond does not raise, the stream
\* grows frame by frame, and the closed stream is exactly one token frame
\* followed by one final frame whose recommendation and summary are null.
C2_ModerationShortCircuit ==
    (pc \notin { "idle", "rejected" } /\ is_offensive(message) # None) =>
        /\ calls = << "is_offensive" >>
        /\ pc \in { "policy", "policy_final", "closed" }
        /\ failure = None
        /\ pc = "policy" => Received = << >>
        /\ pc = "policy_final" => Received = << [event |-> "token", data |-> PolicyMessage] >>
        /\ pc = "closed" =>
              Received = << [event |-> "token", data |-> PolicyMessage],
                            [event |-> "final",
                             data |-> << Json([final |-> TRUE, recommendation |-> None,
                                               summary |-> None]) >>] >>

C2_PolicyStreamClosed ==
    /\ pc = "closed"
    /\ is_offensive(message) = Str(<< "I", "d", "i", "o", "t", "u", "l", "e" >>)
    /\ Len(chunks) = 2

\* C3: when a remote capability failed during a request (the query embedding
\* call, the selection call or the streaming call) and the request is over,
\* respond did not raise, and the stream ends with the one error frame of the
\* request, which carries the message of the failure.
C3_FailureIsOneErrorFrame ==
    (RequestOver /\ failure # None) =>
        /\ pc = "closed"
        /\ Received # << >>
        /\ Received[Len(Received)] =
              [event |-> "error", data |-> << Json([error |-> failure]) >>]
        /\ \A i \in 1..(Len(Received) - 1) : Received[i].event = "token"

\* the text deltas among the events, in provider order
RECURSIVE TextDeltas(_)
TextDeltas(es) ==
    IF es = << >> THEN << >>
    ELSE (IF Head(es).type = "response.output_text.delta" THEN << Head(es).delta >> ELSE << >>)
         \o TextDeltas(Tail(es))

\* the data of the token frames, in the order of the stream
TokenData(fs) ==
    LET tokens == SelectSeq(fs, LAMBDA f : f.event = "token")
    IN  [i \in 1..Len(tokens) |-> tokens[i].data]

\* C5: during and after the streaming step, the data of the token frames
\* received so far are exactly the text deltas the provider yielded so far:
\* one frame per delta, in provider order, none dropped, merged, duplicated
\* or reordered, the frame of a delta emitted before the next is consumed.
C5_TokensAreDeltas ==
    (pc \in { "streaming", "closed" } /\ Invoked("stream")) =>
        TokenData(Received) = TextDeltas(events)

\* the provider stream was opened and ended normally
StreamEndedNormally == pc = "closed" /\ failure = None /\ Invoked("stream")

\* C6 (amended): when the provider stream ended normally, the stream holds
\* exactly one final frame, after every token frame, and its payload is
\* {final: true, recommendation: {title: T}, summary: S}, T the title the
\* selector returned and S the text the lookup returns for T when T is not
\* empty, null when T is empty; the deltas have no part in it.
C6_FinalCarriesLookup ==
    StreamEndedNormally =>
        /\ Received # << >>
        /\ Received[Len(Received)] =
              [event |-> "final",
               data |-> << Json([final |-> TRUE,
                                 recommendation |-> [title |-> Str(title)],
                                 summary |-> IF title # << >>
                                             THEN Str(get_summary_by_title(books, title).value)
                                             ELSE None]) >>]
        /\ \A i \in 1..(Len(Received) - 1) : Received[i].event = "token"

C6_FinalAfterTokens ==
    /\ StreamEndedNormally
    /\ title # << >>
    /\ TextDeltas(events) # << >>
    /\ Len(Received) >= 2

\* C6 as stated: when the provider stream ended normally, the one final
\* frame comes after every token frame and carries {recommendation: {title:
\* T}, summary: S}, S the text the lookup returns for T, whatever T is.
C6_FinalCarriesLookupOfAnyTitle ==
    StreamEndedNormally =>
        /\ Received # << >>
        /\ Received[Len(Received)] =
              [event |-> "final",
               data |-> << Json([final |-> TRUE,
                                 recommendation |-> [title |-> Str(title)],
                                 summary |-> Str(get_summary_by_title(books, title).value)]) >>]
        /\ \A i \in 1..(Len(Received) - 1) : Received[i].event = "token"

-----------------------------------------------------------------------------
(* Properties of the index (SpecIndex) *)

\* calls i and i + 1 of index_books were both made with force = False
TwiceInARow(i) == ~log[i].force /\ ~log[i + 1].force

\* call i + 1 made no embedding call, left the index as it was and returned
\* (0, N), N the number of documents the index held after call i
SecondIsNoOp(i) ==
    /\ log[i + 1].calls = 0
    /\ ~log[i + 1].changed
    /\ log[i + 1].returned = Ok(<< 0, log[i].count >>)

-----------------------------------------------------------------------------
(* Properties of _select_title (SpecSelect) *)

\* the text the completion returned is not valid JSON, is JSON that is not an
\* object, or is an object whose decoded title is no candidate
Unusable(text, titles) ==
    \/ text.doc = "invalid"
    \/ text.doc # "object"
    \/ ~IsMember(DecodedTitle(text).value, titles)

\* C7: for a non-empty candidate set, when the completion returns text that
\* is not valid JSON, or JSON whose decoded title is not a candidate (JSON
\* that is not an object included), _select_title returns the first
\* candidate title in first-seen order and raises nothing.
C7_FallbackToFirstCandidate ==
    (/\ pc = "return"
     /\ CandidateTitles(args.context_items) # << >>
     /\ args.completion.ok
     /\ Unusable(args.completion.value, CandidateTitles(args.context_items)))
        => result = Ok(CandidateTitles(args.context_items)[1])

C7_FellBackOnForeignTitle ==
    /\ pc = "return"
    /\ Len(args.context_items) = 2
    /\ CandidateTitles(args.context_items)
          = << << "E", "m", "m", "a" >>, << "D", "u", "n", "e" >> >>
    /\ args.completion = Ok(Object(Str(<< "U", "l", "y", "s", "s", "e", "s" >>)))
    /\ result = Ok(<< "E", "m", "m", "a" >>)

\* the titles of the candidates, trimmed, that are not empty
TrimmedTitles(items) == { strip(items[i].title) : i \in 1..Len(items) } \ { << >> }

\* C23: _select_title returns the empty string exactly when no candidate
\* has a title that is not empty after trimming, and then it makes no call
\* of the completion capability; otherwise it makes the call and, whatever
\* text the call returns, the result is one of the trimmed non-empty
\* candidate titles.
C23_ResultIsCandidate ==
    pc = "return" =>
        LET titles == TrimmedTitles(args.context_items)
        IN  /\ titles = {} => (result = Ok(<< >>) /\ calls = << >>)
            /\ result = Ok(<< >>) => titles = {}
            /\ (titles # {} /\ args.completion.ok) =>
                  (result.ok /\ result.value \in titles /\ calls = << "select" >>)

\* candidates whose titles are blank or missing: the empty string came back
\* and no call was made
C23_BlankTitlesNoCall ==
    /\ pc = "return"
    /\ Len(args.context_items) = 2
    /\ args.context_items[1].title = << " " >>
    /\ args.context_items[2].title = << >>
    /\ result = Ok(<< >>)
    /\ calls = << >>

-----------------------------------------------------------------------------
(* Properties of get_summary_by_title (SpecSummary) *)

\* the entries of a catalog whose normalized title is key, and those whose
\* normalized title holds key as a substring or starts with it
ExactEntries(catalog, key) ==
    { i \in 1..Len(catalog) :
        strip(catalog[i].title) # << >> /\ _norm(catalog[i].title) = key }
SubstringEntries(catalog, key) ==
    { i \in 1..Len(catalog) :
        /\ strip(catalog[i].title) # << >>
        /\ \/ contains(_norm(catalog[i].title), key)
           \/ startswith(_norm(catalog[i].title), key) }

FirstOf(S) == CHOOSE i \in S : \A j \in S : i <= j
LastOf(S) == CHOOSE i \in S : \A j \in S : j <= i

\* what the lookup returns for an entry: its summary, or the text msg when
\* the summary is empty
Resolved(entry, msg) ==
    Ok(IF strip(entry.summary) # << >> THEN strip(entry.summary) ELSE msg)

\* C8: for a title that is not blank, when the catalog holds an entry whose
\* normalized title equals the normalized query, the lookup resolves to that
\* entry (of several entries with that normalized title, to the last in the
\* catalog), whatever other titles hold the query as a substring; and when no
\* entry matches exactly but some normalized title holds the query as a
\* substring or prefix, the lookup resolves to the first such title in
\* catalog order, so the fuzzy stage has no part in the result.
C8_ExactThenSubstringThenFuzzy ==
    (pc = "return" /\ strip(args.title) # << >>) =>
        LET key == _norm(args.title)
            exact == ExactEntries(args.books, key)
            subs == SubstringEntries(args.books, key)
        IN  /\ exact # {} =>
                  LET entry == args.books[LastOf(exact)]
                  IN  result = Resolved(entry, MsgNoSummary(entry.title))
            /\ (exact = {} /\ subs # {}) =>
                  LET first == args.books[FirstOf(subs)]
                      entry == args.books[LastOf(ExactEntries(args.books, _norm(first.title)))]
                  IN  result = Resolved(entry, MsgCandidateNoSummary(entry.title))

C8_DuneBeforeDuneMessiah ==
    /\ pc = "return"
    /\ args.title = << " ", "d", "u", "n", "e", " " >>
    /\ args.books = << Book(<< "D", "u", "n", "e", " ", "M", "e", "s", "s", "i", "a", "h" >>,
                            << "s", "2" >>),
                       Book(<< "D", "u", "n", "e" >>, << " ", "s", "1", " " >>) >>
    /\ result = Ok(<< "s", "1" >>)

\* C9: for every title and every loaded catalog, get_summary_by_title
\* raises nothing and returns a text that is not empty.
C9_LookupNeverFails ==
    pc = "return" => (result.ok /\ result.value # << >>)

-----------------------------------------------------------------------------
(* Properties of retrieve (SpecRetrieve) *)

\* the place of the document with this id in the insertion order of the index
Inserted(id) == CHOOSE p \in 1..Len(col) : col[p].id = id

\* C10 (amended): the matches retrieve returns are sorted by non-decreasing
\* distance.
C10_SortedByDistance ==
    (pc = "return" /\ result.ok) =>
        \A i, j \in 1..Len(result.value) :
            i < j => result.value[i].distance <= result.value[j].distance

C10_NearerMatchFirst ==
    /\ pc = "return"
    /\ result.ok
    /\ Len(result.value) >= 2
    /\ result.value[1].distance < result.value[Len(result.value)].distance

\* C10 as stated: the matches retrieve returns are sorted by non-decreasing
\* distance, and two matches at the same distance stand in the order in
\* which the index took their documents in.
C10_SortedByDistanceThenInsertion ==
    (pc = "return" /\ result.ok) =>
        \A i, j \in 1..Len(result.value) :
            i < j =>
                \/ result.value[i].distance < result.value[j].distance
                \/ /\ result.value[i].distance = result.value[j].distance
                   /\ Inserted(result.value[i].id) < Inserted(result.value[j].id)

\* C11: retrieve with a query that is not blank, against an index that holds
\* no document, returns the empty sequence and raises nothing, whatever k is
\* and whatever vector the embedding call returns for the query.
C11_EmptyIndexNoMatches ==
    (/\ pc = "return"
     /\ col = << >>
     /\ strip(args.query) # << >>
     /\ args.embedding.ok)
        => result = Ok(<< >>)

C11_QueriedEmptyIndex ==
    /\ pc = "return"
    /\ col = << >>
    /\ args.query = << "c", "a", "r", "t", "e" >>
    /\ args.k = 3
    /\ args.embedding.ok
    /\ embedCalls = 1
    /\ result = Ok(<< >>)

-----------------------------------------------------------------------------
(* Properties of overlapping executions of index_books (SpecOverlap) *)

\* the execution is between its count of the collection and its return
Writing(e) == runs[e].pc \in { "get", "delete", "embed", "add" }

\* C12: of two overlapping executions of index_books at most one is on the
\* write path at a time, the index never holds two documents with one id,
\* and no catalog entry is sent to the embedding capability by both.
C12_NoDoubleInsert ==
    pc = "overlap" =>
        \A e, f \in Executions :
            e # f =>
                /\ ~(Writing(e) /\ Writing(f))
                /\ DistinctIds(col)
                /\ runs[e].embedded \cap runs[f].embedded = {}

-----------------------------------------------------------------------------
(* Properties of a failed call of index_books (SpecIndex) *)

\* C13: when the embedding call of a batch fails during index_books, with
\* force or without, the failure is raised to the caller, every document
\* the index held before the call is still in it, and so is every document
\* of the batches that were completed before the failure.
C13_FailureLeavesIndexNoWorse ==
    \A i \in 1..Len(log) :
        log[i].failed > 0 =>
            /\ log[i].returned = Raise(EmbeddingError)
            /\ ~log[i].lost
            /\ ~log[i].missing

-----------------------------------------------------------------------------
(* Properties of a completed call of index_books (SpecIndex) *)

\* the ids of the catalog entries whose title is not blank
CatalogIds ==
    { _slugify(strip(books[i].title)) : i \in { j \in 1..Len(books) : strip(books[j].title) # << >> } }

\* the last call of index_books returned normally, and it found the index
\* empty or was made with force
Rebuilt ==
    /\ log # << >>
    /\ log[Len(log)].returned.ok
    /\ (log[Len(log)].before = 0 \/ log[Len(log)].force)

\* C14: after index_books returned normally from a call on an empty index,
\* or from a call with force on any index, the ids of the documents of the
\* index are exactly the ids of the catalog entries with a title that is
\* not blank: no id twice, and no document left from before the rebuild.
C14_OneDocumentPerEntry ==
    Rebuilt => (DistinctIds(col) /\ Ids(col) = CatalogIds)

C14_ForcedRebuildOfOlderIndex ==
    /\ Rebuilt
    /\ log[Len(log)].force
    /\ log[Len(log)].before = 3
    /\ Len(col) = BATCH + 1

-----------------------------------------------------------------------------
(* Properties of one population pass of index_books (SpecIndex) *)

\* the last call of index_books went past its guard: a population pass
Populating ==
    /\ log # << >>
    /\ (log[Len(log)].before = 0 \/ log[Len(log)].force)

\* the document of the index at place i is the i-th entry with a title, as
\* index_books composes it, with the vector the embedding call of the pass
\* returned for its text
StoredAsEmbedded(i, docs, m) ==
    /\ col[i].id = docs[i].id
    /\ col[i].document = docs[i].document
    /\ col[i].metadata = docs[i].metadata
    /\ col[i].embedding = Embedding(m, docs[i].document)

\* C25: in one population pass of index_books the entries with a title
\* that is not empty are cut, in catalog order, into consecutive batches of
\* at most BATCH = 64 items, full but for the last; each batch reached
\* causes one embedding call, so a pass that returns made one call per
\* batch and embedded every entry once; what the pass stored is, in catalog
\* order, a run of batches from the first on, the i-th id and text with
\* the vector returned for that text, and all of them when it returns.
C25_BatchesOfAtMost64 ==
    Populating =>
        LET e == log[Len(log)]
            docs == BuildDocs(books)
            n == Len(docs)
        IN  /\ e.calls = Len(e.sizes)
            /\ e.calls <= (n + BATCH - 1) \div BATCH
            /\ \A b \in 1..e.calls :
                  /\ e.sizes[b] \in 1..BATCH
                  /\ b < (n + BATCH - 1) \div BATCH => e.sizes[b] = BATCH
                  /\ (b - 1) * BATCH + e.sizes[b] <= n
            /\ Len(col) <= n
            /\ \A i \in 1..Len(col) : StoredAsEmbedded(i, docs, e.model)
            /\ (Len(col) < n) => (Len(col) % BATCH = 0 /\ Len(col) \div BATCH < Max(1, e.calls))
            /\ e.returned.ok =>
                  /\ Len(col) = n
                  /\ e.calls = (n + BATCH - 1) \div BATCH
                  /\ n > 0 => (e.calls - 1) * BATCH + e.sizes[e.calls] = n

\* a pass over BATCH + 1 entries returned: a full batch and a batch of one
C25_TwoBatchesStored ==
    /\ Populating
    /\ log[Len(log)].returned.ok
    /\ log[Len(log)].sizes = << BATCH, 1 >>
    /\ Len(col) = BATCH + 1

\* C26: after any sequence of calls of index_books that began on an empty
\* index (any values of force, embedding failures and restarts in
\* between), whenever a call without force returns normally the index
\* holds a document for every catalog entry with a title that is not
\* empty: a pass that was aborted after some batches is completed by the
\* next call that returns.
C26_ReturnedMeansPopulated ==
    (/\ log # << >>
     /\ log[1].before = 0
     /\ ~log[Len(log)].force
     /\ log[Len(log)].returned.ok)
        => CatalogIds \subseteq Ids(col)

-----------------------------------------------------------------------------
(* Properties of the validation of a request (Spec) *)

\* C15: a request whose message is empty after the trim is rejected with
\* the client error before the pipeline starts: no component is invoked,
\* neither a remote capability, and no frame of any type is emitted.
C15_BlankMessageRejected ==
    (pc # "idle" /\ message = << >>) =>
        /\ pc = "rejected"
        /\ calls = << >>
        /\ chunks = << >>
        /\ failure = None
        /\ context_items = << >> /\ title = << >> /\ events = << >>

C15_Rejected ==
    /\ pc = "rejected"
    /\ message = << >>
    /\ chunks = << >>

-----------------------------------------------------------------------------
(* Properties of two requests (SpecPair) *)

\* the moderation gate finds a term in the message of the running request,
\* and in the message of the waiting one
BothFlagged ==
    /\ is_offensive(message) # None
    /\ is_offensive(parked.message) # None

\* C16: two requests whose messages the moderation gate flags, whatever the
\* terms it found, have emitted the same bytes, and so the same frames,
\* whenever they stand at the same point of the policy reply.
C16_PolicyReplyHidesTerm ==
    (BothFlagged /\ pc = parked.pc) =>
        (chunks = parked.chunks /\ Frames(chunks) = Frames(parked.chunks))

C16_TwoTermsOneReply ==
    /\ BothFlagged
    /\ is_offensive(message) = Str(<< "b", "o", "u" >>)
    /\ is_offensive(parked.message) = Str(<< "I", "d", "i", "o", "t", "u", "l", "e" >>)
    /\ pc = "closed"
    /\ parked.pc = "closed"
    /\ Len(Frames(chunks)) = 2

-----------------------------------------------------------------------------
(* Order of the steps of one request (Spec) *)

\* the steps of a request in the order of the claim
StepOrder ==
    << "is_offensive", "embed", "query", "select", "get_summary_by_title", "stream" >>

StepRank(c) == CHOOSE i \in 1..Len(StepOrder) : StepOrder[i] = c

\* the request passed moderation and its final frame was sent
AnsweredInFull ==
    /\ pc = "closed" /\ failure = None /\ Invoked("stream")
    /\ Received # << >> /\ Received[Len(Received)].event = "final"

\* C19: at every point of a request the calls made so far are steps of
\* the sequence moderation check, query embedding, index query (at most 3
\* matches), title-selection call, summary lookup, streaming call, in that
\* order and each at most once; the moderation check is the first of them
\* (no remote call precedes it); no call is made once the streaming call is
\* open, and the final frame comes after the streaming call; a request
\* answered in full with a candidate and a title made every one of them.
C19_StepsInOrder ==
    /\ \A i \in 1..Len(calls) : \E j \in 1..Len(StepOrder) : StepOrder[j] = calls[i]
    /\ \A i \in 1..(Len(calls) - 1) : StepRank(calls[i]) < StepRank(calls[i + 1])
    /\ calls # << >> => calls[1] = "is_offensive"
    /\ Len(context_items) <= 3
    /\ pc = "streaming" => calls[Len(calls)] = "stream"
    /\ (\E i \in 1..Len(Received) : Received[i].event = "final" /\ is_offensive(message) = None)
          => (Invoked("stream") /\ Received[Len(Received)].event = "final")
    /\ (AnsweredInFull /\ SelectCalls(context_items) /\ title # << >>) => calls = StepOrder

\* a request went through every step and its final frame was sent
C19_EveryStepTaken ==
    AnsweredInFull /\ calls = StepOrder

\* the streaming call was made and failed, at its opening or while the
\* stream was read
StreamingCallFailed == pc = "closed" /\ failure # None /\ Invoked("stream")

\* C20: when the streaming call failed after the provider yielded n text
\* deltas (n >= 0), the generator wrote exactly n token chunks, the i-th
\* written from the i-th delta, and then one error chunk; the stream
\* received is n token frames followed by exactly one error frame, which
\* carries the failure; there is no final frame and nothing after the
\* error frame.
C20_FailedStreamEndsInOneError ==
    StreamingCallFailed =>
        LET deltas == TextDeltas(events)
            n == Len(deltas)
        IN  /\ Len(chunks) = n + 1
            /\ \A i \in 1..n : chunks[i] = _sse(deltas[i], "token")
            /\ chunks[n + 1] = ErrorFrame(failure.str[1])
            /\ Len(Received) = n + 1
            /\ \A i \in 1..n : Received[i].event = "token"
            /\ Received[n + 1] = [event |-> "error", data |-> << Json([error |-> failure]) >>]
            /\ \A i \in 1..Len(Received) : Received[i].event # "final"

\* the streaming call failed after a text delta and an event of another type
C20_FailedAfterDeltas ==
    /\ StreamingCallFailed
    /\ TextDeltas(events) # << >>
    /\ Len(events) > Len(TextDeltas(events))

\* the request passed moderation, retrieval and selection returned, the
\* selected title is empty and the summary step is behind
EmptyTitleSelected ==
    /\ Invoked("query")
    /\ title = << >>
    /\ pc \in { "streaming", "closed" }

\* C24: when the selected title is empty, the summary lookup is not called
\* and the summary is empty (no 'title not found' text), the streaming call
\* is still made, a stream that ends normally ends with a final frame whose
\* title is empty and whose summary is null, and an error frame on the
\* stream is the failure of the streaming call, never of the empty title.
C24_EmptyTitleIsNoError ==
    EmptyTitleSelected =>
        /\ ~Invoked("get_summary_by_title")
        /\ summary = << >>
        /\ Invoked("stream")
        /\ (pc = "closed" /\ failure = None) =>
              Received[Len(Received)] =
                 [event |-> "final",
                  data |-> << Json(FinalResponse([title |-> Str(<< >>)], None)) >>]
        /\ (pc = "closed" /\ failure # None) =>
              Received[Len(Received)] =
                 [event |-> "error", data |-> << Json([error |-> Str(<< StreamError >>)]) >>]

\* retrieval found nothing, the title is empty, and the stream ended with
\* its final frame after a token
C24_EmptyTitleAnswered ==
    /\ EmptyTitleSelected
    /\ context_items = << >>
    /\ pc = "closed" /\ failure = None
    /\ Len(Received) >= 2

-----------------------------------------------------------------------------
(* Properties of the startup (SpecStartup) *)

\* the catalog could not be loaded when the process started
LoadFailed == args.catalog \in { "missing", "not_a_list" }

\* C17: when the catalog source is missing, or does not decode to a list,
\* the failure leaves the startup step: past the startup the process has
\* failed, and it never stands ready to take requests or serves one.
C17_LoadFailureIsFatal ==
    (LoadFailed /\ pc # "starting") => pc = "failed"

\* the token frames of the text deltas among the events evs
SoloTokens(evs) ==
    LET d == SelectSeq(evs, LAMBDA e : e.type = "response.output_text.delta")
    IN  << >> \o [i \in 1..Len(d) |-> _sse(d[i].delta, "token")]

\* the last frame of a request r that ran alone and is closed
SoloLast(r) ==
    LET found == IF r.title # << >> THEN get_summary_by_title(books, r.title)
                 ELSE Ok(<< >>)
    IN  IF ~found.ok THEN ErrorFrame(found.exc)
        ELSE IF r.failure # None THEN ErrorFrame(r.failure.str[1])
        ELSE _sse(json_dumps(FinalResponse([title |-> Str(r.title)],
                                           IF found.value # << >> THEN Str(found.value)
                                           ELSE None)),
                  "final")

\* the frames a request yields when it runs alone, up to the step r.pc, with
\* the message, the selected title, the provider events and the failure of r
SoloFrames(r) ==
    IF r.pc \in { "idle", "rejected", "raised", "policy", "stream" } THEN << >>
    ELSE IF is_offensive(r.message) # None
    THEN << _sse(PolicyMessage, "token") >>
         \o (IF r.pc = "closed"
             THEN << _sse(json_dumps(FinalResponse(None, None)), "final") >>
             ELSE << >>)
    ELSE SoloTokens(r.events) \o (IF r.pc = "closed" THEN << SoloLast(r) >> ELSE << >>)

\* C18: under every interleaving of the steps of two requests, the frames
\* on each request's stream are the frames that request yields when it runs
\* alone with its own message and its own provider responses: nothing of
\* the other request's message, matches, title or summary shows in them.
C18_RequestsIndependent ==
    /\ chunks = SoloFrames(Locals)
    /\ parked.chunks = SoloFrames(parked)

\* two requests with different titles are streaming at the same time, each
\* with a frame sent already
C18_TwoStreamsInterleaved ==
    /\ pc = "streaming" /\ parked.pc = "streaming"
    /\ chunks # << >> /\ parked.chunks # << >>
    /\ title # << >> /\ parked.title # << >> /\ title # parked.title

\* the calls named c among the calls cs
CallsOf(cs, c) == Cardinality({ i \in 1..Len(cs) : cs[i] = c })

\* C21: a retrieve whose query is empty after trimming makes no embedding
\* call and no index query and returns the empty sequence without error;
\* every retrieve of a query that is not empty makes exactly one embedding
\* call, the first of its calls, also when the same query was retrieved
\* before: the embedding calls made so far are as many as the retrieves of
\* a non-empty query.
C21_OneEmbeddingPerQuery ==
    /\ \A i \in 1..Len(log) :
          /\ log[i].query = << >> => log[i].calls = << >>
          /\ log[i].query # << >> =>
                (CallsOf(log[i].calls, "embed") = 1 /\ log[i].calls[1] = "embed")
    /\ embedCalls = Cardinality({ i \in 1..Len(log) : log[i].query # << >> })
    /\ (pc = "return" /\ strip(args.query) = << >>) => (result = Ok(<< >>) /\ calls = << >>)

\* the same query was retrieved twice and embedded twice
C21_SameQueryTwice ==
    /\ Len(log) = 2
    /\ log[1].query # << >>
    /\ log[1].query = log[2].query
    /\ embedCalls = 2

\* the vector the embedding call returned for the query of the last retrieve
QueryVector == embed_texts(<< strip(args.query) >>, args.embedding).value[1]

\* the last retrieve had a query that is not empty and its embedding call
\* returned
Retrieved == pc = "return" /\ strip(args.query) # << >> /\ args.embedding.ok

\* C22: for a query that is not empty, any integer k (k <= 0 included) and
\* an index of N documents, retrieve returns exactly min(max(1, k), N)
\* matches; they are distinct documents of the index, each with its cosine
\* distance to the query vector, and no document left out is nearer to the
\* query vector than a document returned.
C22_NearestClampedK ==
    Retrieved =>
        /\ result.ok
        /\ Len(result.value) = Min(Max(1, args.k), Len(col))
        /\ \A i, j \in 1..Len(result.value) :
              i # j => result.value[i].id # result.value[j].id
        /\ \A i \in 1..Len(result.value) :
              /\ \E p \in 1..Len(col) :
                    /\ col[p].id = result.value[i].id
                    /\ result.value[i].distance = Distance(QueryVector, col[p].embedding)
              /\ \A p \in 1..Len(col) :
                    (\A j \in 1..Len(result.value) : result.value[j].id # col[p].id)
                        => result.value[i].distance <= Distance(QueryVector, col[p].embedding)

\* k = 0 against an index of several documents at different distances: one
\* match came back and a document farther away was left out
C22_ZeroKOneMatch ==
    /\ Retrieved
    /\ args.k = 0
    /\ Len(result.value) = 1
    /\ \E p \in 1..Len(col) :
          result.value[1].distance < Distance(QueryVector, col[p].embedding)

\* C27: handling requests never writes to the index or to the catalog:
\* once the startup step is over, no step of a request (rejected, blocked,
\* answered or failing) and no sequence of them changes the documents of
\* the index or the entries of the catalog; the index changes in the
\* startup step alone, where index_books runs.
C27_RequestsLeaveIndexAlone ==
    [][pc # "starting" => (col' = col /\ books' = books)]_vars

\* the startup populated the index and a request was answered from it
C27_AnsweredFromIndex ==
    /\ args.catalog = "list"
    /\ col # << >>
    /\ pc = "closed"
    /\ context_items # << >>
    /\ Received # << >>
====
